---- MODULE Spec2Model ----
(***************************************************************************)
(* Model of the Quiver Quantitative API client (src/data/quiver_api.py).   *)
(*                                                                         *)
(* One behaviour of the model is one invocation of a public method of      *)
(* QuiverAPI on a freshly constructed client.  The upstream service is the *)
(* environment: every HTTP GET the client issues is answered by one        *)
(* outcome (a network-level exception, or a status code with a body).      *)
(*                                                                         *)
(* A JSON body is a record [kind, elems, keys]:                            *)
(*   "invalid"  the body is not valid JSON                                 *)
(*   "null"     null                                                       *)
(*   "falsy"    a falsy scalar: 0, "" or false                             *)
(*   "truthy"   a truthy scalar: a non-zero number, a non-empty string,    *)
(*              true                                                       *)
(*   "array"    an array of objects, elems, possibly empty                 *)
(*   "object"   an object with the field names keys, every value a scalar  *)
(* An object of an array is [keys, Mentions]: the set of its field names   *)
(* and the value of its Mentions field (0 when it has none).               *)
(*                                                                         *)
(* A table (pandas DataFrame) is [rows, cols]: the sequence of its rows    *)
(* and the set of its column names.  A row is [index, keys, Mentions]:     *)
(* its index label, the columns in which it holds a value (the others are  *)
(* NaN) and its value in the Mentions column.                              *)
(***************************************************************************)
EXTENDS Integers, Sequences, FiniteSets, TLC

VARIABLES
    auth_token,     \* self.auth_token, os.getenv('AUTHORISATION_TOKEN')
    jsonErrorIsRequestException,
                    \* whether the installed requests raises, from
                    \* response.json(), a subclass of RequestException
                    \* (requests >= 2.27) or a plain ValueError (older)
    op,             \* the public method invoked, "none" before the call
    pc,             \* "idle", "waiting" (a GET is in flight), "returned", "raised"
    calls,          \* arguments of the _make_request invocations so far
    gets,           \* the HTTP GETs issued so far, in order
    inflight,       \* the GETs issued and not yet answered
    responses,      \* the outcomes of the answered GETs, in order
    mr,             \* what the latest finished _make_request produced
    ticker,         \* get_composite_data: its argument, "" otherwise
    partial,        \* get_composite_data: the tables fetched so far
    result          \* what the public method produced, once pc is final

vars == <<auth_token, jsonErrorIsRequestException, op, pc, calls, gets,
          inflight, responses, mr, ticker, partial, result>>

(***************************************************************************)
(* Bounds of the model.                                                    *)
(***************************************************************************)
MaxLen == 2         \* longest array of objects a generic endpoint answers
MaxRows == 11       \* longest dataset the live sentiment endpoint answers

(***************************************************************************)
(* Program constants.                                                      *)
(***************************************************************************)
TopN == 10

BaseUrl == "https://api.quiverquant.com/beta"

Headers ==
    [Accept |-> "application/json", Authorization |-> "Bearer " \o auth_token]

AuthTokens == {"None", "token"}
Tickers == {"AAPL", "TSLA"}
Pages == {1, 2}
PageSizes == {1, 100}

Keys == {"Ticker", "Mentions"}
MentionVals == {1, 2}

(***************************************************************************)
(* Python's str() of a bool, as it goes into the query string.             *)
(***************************************************************************)
BoolStr(b) == IF b THEN "True" ELSE "False"

(***************************************************************************)
(* The upstream's answers.                                                 *)
(***************************************************************************)
Objects ==
    {[keys |-> ks, Mentions |-> m] : ks \in SUBSET Keys, m \in {0} \cup MentionVals}

\* An object as JSON gives it: the Mentions value is 0 exactly when absent.
WellFormed(o) == ("Mentions" \in o.keys) <=> (o.Mentions > 0)

RECURSIVE SeqsOf(_, _)
SeqsOf(S, n) ==
    IF n = 0 THEN {<<>>}
    ELSE LET shorter == SeqsOf(S, n - 1)
         IN  shorter \cup {Append(s, x) : s \in {t \in shorter : Len(t) = n - 1}, x \in S}

Body(kind, elems, keys) == [kind |-> kind, elems |-> elems, keys |-> keys]

ArrayBodies(S, n) == {Body("array", s, {}) : s \in SeqsOf(S, n)}

ScalarBodies ==
    {Body(k, <<>>, {}) : k \in {"invalid", "null", "falsy", "truthy"}}

ObjectBodies == {Body("object", <<>>, ks) : ks \in SUBSET Keys}

Statuses == {200, 201, 304, 401, 500}

NetworkError == [net |-> TRUE, status |-> 0, body |-> Body("null", <<>>, {})]

Response(status, body) == [net |-> FALSE, status |-> status, body |-> body]

\* What a generic endpoint may answer.
GenericOutcomes ==
    {NetworkError} \cup
    {Response(s, b) : s \in Statuses,
                      b \in ArrayBodies({o \in Objects : WellFormed(o)}, MaxLen)
                            \cup ScalarBodies \cup ObjectBodies}

\* What the live sentiment endpoint may answer: the generic answers with
\* at most one element, and datasets of up to MaxRows rows that all carry
\* a Ticker and a Mentions value.
SentimentOutcomes ==
    {o \in GenericOutcomes : Len(o.body.elems) <= 1} \cup
    {Response(200, b) :
        b \in ArrayBodies({o \in Objects : o.keys = Keys /\ WellFormed(o)}, MaxRows)}

\* What a historical, per-ticker endpoint may answer.
HistoricalOutcomes ==
    {NetworkError,
     Response(401, Body("object", <<>>, {"Ticker"})),
     Response(200, Body("array", <<>>, {})),
     Response(200, Body("array", <<[keys |-> Keys, Mentions |-> 1]>>, {})),
     Response(200, Body("object", <<>>, {"Ticker"}))}

IsHistorical(endpoint) ==
    \E t \in Tickers, src \in {"congresstrading", "wallstreetbets", "govcontracts",
                               "lobbying", "offexchange", "politicalbeta"} :
        endpoint = "historical/" \o src \o "/" \o t

Upstream(endpoint) ==
    IF endpoint = "live/wallstreetbets" THEN SentimentOutcomes
    ELSE IF IsHistorical(endpoint) THEN HistoricalOutcomes
    ELSE GenericOutcomes

(***************************************************************************)
(* Tables.                                                                 *)
(***************************************************************************)
\* pd.DataFrame()
EmptyDF == [rows |-> <<>>, cols |-> {}]

\* Faulty variant: a table is empty only when it has no rows.
EmptyNoRows(df) == Len(df.rows) = 0

\* DataFrame.empty: some axis has length 0.
Empty(df) == Len(df.rows) = 0 \/ df.cols = {}

\* What a call produces: a value, or an exception that propagates.
Returned(v) == [exc |-> "none", value |-> v]
Raised(e) == [exc |-> e, value |-> EmptyDF]

\* Faulty variant: only a server error raises.
RaiseForStatusServerOnly(status) == 500 <= status /\ status < 600

\* response.raise_for_status(): HTTPError for a 4xx or 5xx status.
RaiseForStatus(status) == 400 <= status /\ status < 600

\* Faulty variant: `if data is None` in place of `if not data`.
TruthyNotNone(body) == body.kind # "null"

\* Python truth of the decoded body, `if not data`.
Truthy(body) ==
    CASE body.kind = "null"   -> FALSE
      [] body.kind = "falsy"  -> FALSE
      [] body.kind = "truthy" -> TRUE
      [] body.kind = "array"  -> Len(body.elems) > 0
      [] body.kind = "object" -> body.keys # {}

\* Faulty variant: columns inferred from the first record only.
DataFrameFirstRecord(body) ==
    IF body.kind = "array"
    THEN Returned([rows |-> [i \in 1..Len(body.elems) |->
                                [index |-> i - 1,
                                 keys |-> body.elems[i].keys \cap body.elems[1].keys,
                                 Mentions |-> IF "Mentions" \in body.elems[1].keys
                                              THEN body.elems[i].Mentions ELSE 0]],
                   cols |-> body.elems[1].keys])
    ELSE Raised("ValueError")

\* pd.DataFrame(data): a list of records gives one row per record, labelled
\* 0..N-1, and the union of their keys as columns; an empty list and an
\* empty dict give the empty table; a scalar, and a dict of scalars only,
\* raise ValueError.
DataFrame(body) ==
    IF body.kind = "array"
    THEN Returned([rows |-> [i \in 1..Len(body.elems) |->
                                [index |-> i - 1,
                                 keys |-> body.elems[i].keys,
                                 Mentions |-> body.elems[i].Mentions]],
                   cols |-> UNION {body.elems[i].keys : i \in 1..Len(body.elems)}])
    ELSE IF body.kind = "object" /\ body.keys = {} THEN Returned(EmptyDF)
    ELSE Raised("ValueError")

\* _make_request from the answer of its GET on: the except clause catches
\* RequestException only.
MakeRequest(o) ==
    IF o.net THEN Returned(EmptyDF)
    ELSE IF RaiseForStatus(o.status) THEN Returned(EmptyDF)
    ELSE IF o.body.kind = "invalid"
         THEN IF jsonErrorIsRequestException
              THEN Returned(EmptyDF)
              ELSE Raised("JSONDecodeError")
    ELSE IF ~Truthy(o.body) THEN Returned(EmptyDF)
    ELSE DataFrame(o.body)

\* The position of the row nlargest takes next: the first of the largest.
First(rows) ==
    CHOOSE i \in 1..Len(rows) :
        /\ \A j \in 1..Len(rows) : rows[j].Mentions <= rows[i].Mentions
        /\ \A j \in 1..(i - 1) : rows[j].Mentions < rows[i].Mentions

Without(rows, i) == SubSeq(rows, 1, i - 1) \o SubSeq(rows, i + 1, Len(rows))

RECURSIVE Largest(_, _)
Largest(n, rows) ==
    IF n = 0 \/ Len(rows) = 0 THEN <<>>
    ELSE LET i == First(rows)
         IN  <<rows[i]>> \o Largest(n - 1, Without(rows, i))

\* Faulty variant: the first n rows, unsorted (head in place of nlargest).
NLargestHead(n, df) ==
    IF "Mentions" \notin df.cols THEN Raised("KeyError")
    ELSE Returned([rows |-> SubSeq(df.rows, 1, IF Len(df.rows) < n THEN Len(df.rows) ELSE n),
                   cols |-> df.cols])

\* df.nlargest(n, 'Mentions'), keep='first': KeyError without the column.
NLargest(n, df) ==
    IF "Mentions" \notin df.cols THEN Raised("KeyError")
    ELSE Returned([rows |-> Largest(n, df.rows), cols |-> df.cols])

\* get_wallstreetbets_trending, from the return of get_wallstreetbets_live on.
Trending(r) ==
    IF r.exc # "none" THEN r
    ELSE IF ~Empty(r.value) THEN NLargest(TopN, r.value)
    ELSE r

\* Faulty variant: test_connection without its try/except.
TestConnectionPropagates(r) ==
    IF r.exc # "none" THEN r
    ELSE Returned(~Empty(r.value))

\* test_connection, from the return of get_congress_trading_live on:
\* `except Exception` catches whatever the fetch raises.
TestConnection(r) ==
    IF r.exc # "none" THEN Returned(FALSE)
    ELSE Returned(~Empty(r.value))

(***************************************************************************)
(* The accessors: each binds a name to the arguments of _make_request.     *)
(***************************************************************************)
NoParams == {}

Paged(page, page_size) ==
    {<<"page", ToString(page)>>, <<"page_size", ToString(page_size)>>}

Args(endpoint, params) == [endpoint |-> endpoint, params |-> params]

Accessors ==
    {"get_congress_trading_live", "get_historical_congress_trading",
     "get_congress_trading_bulk", "get_wallstreetbets_live",
     "get_historical_wallstreetbets", "get_government_contracts_live",
     "get_historical_government_contracts", "get_off_exchange_live",
     "get_historical_off_exchange", "get_lobbying_live",
     "get_historical_lobbying", "get_political_beta_live",
     "get_historical_political_beta"}

Accessor(a, t, page, page_size, count_all) ==
    CASE a = "get_congress_trading_live" ->
            Args("live/congresstrading", Paged(page, page_size))
      [] a = "get_historical_congress_trading" ->
            Args("historical/congresstrading/" \o t, NoParams)
      [] a = "get_congress_trading_bulk" ->
            Args("bulk/congresstrading", Paged(page, page_size))
      [] a = "get_wallstreetbets_live" ->
            Args("live/wallstreetbets", {<<"count_all", BoolStr(count_all)>>})
      [] a = "get_historical_wallstreetbets" ->
            Args("historical/wallstreetbets/" \o t, NoParams)
      [] a = "get_government_contracts_live" ->
            Args("live/govcontracts", NoParams)
      [] a = "get_historical_government_contracts" ->
            Args("historical/govcontracts/" \o t, NoParams)
      [] a = "get_off_exchange_live" ->
            Args("live/offexchange", NoParams)
      [] a = "get_historical_off_exchange" ->
            Args("historical/offexchange/" \o t, NoParams)
      [] a = "get_lobbying_live" ->
            Args("live/lobbying", Paged(page, page_size))
      [] a = "get_historical_lobbying" ->
            Args("historical/lobbying/" \o t, NoParams)
      [] a = "get_political_beta_live" ->
            Args("live/politicalbeta", NoParams)
      [] a = "get_historical_political_beta" ->
            Args("historical/politicalbeta/" \o t, NoParams)

\* The keys of get_composite_data's mapping, in the order of its dict
\* display, each with the accessor that fetches it.
Sources ==
    <<[key |-> "congress",       via |-> "get_historical_congress_trading"],
      [key |-> "wsb",            via |-> "get_historical_wallstreetbets"],
      [key |-> "govcontracts",   via |-> "get_historical_government_contracts"],
      [key |-> "lobbying",       via |-> "get_historical_lobbying"],
      [key |-> "offexchange",    via |-> "get_historical_off_exchange"],
      [key |-> "political_beta", via |-> "get_historical_political_beta"]>>

\* Faulty variant: the GET goes out without the query parameters.
RequestNoParams(endpoint, params) ==
    [url |-> BaseUrl \o "/" \o endpoint, headers |-> Headers, params |-> NoParams]

\* requests.get(url, headers=self.headers, params=params)
Request(endpoint, params) ==
    [url |-> BaseUrl \o "/" \o endpoint, headers |-> Headers, params |-> params]

(***************************************************************************)
(* The state machine.                                                      *)
(***************************************************************************)
Init ==
    /\ auth_token \in AuthTokens
    /\ jsonErrorIsRequestException \in BOOLEAN
    /\ op = "none"
    /\ pc = "idle"
    /\ calls = <<>>
    /\ gets = <<>>
    /\ inflight = {}
    /\ responses = <<>>
    /\ mr = Returned(EmptyDF)
    /\ ticker = ""
    /\ partial = <<>>
    /\ result = Returned(EmptyDF)

\* _make_request up to its GET: the request goes out and the call blocks.
Issue(a) ==
    /\ calls' = Append(calls, a)
    /\ gets' = Append(gets, Request(a.endpoint, a.params))
    /\ inflight' = inflight \cup {Len(gets) + 1}
    /\ pc' = "waiting"

\* The upstream answers the GET in flight with o; _make_request finishes.
Answer(o) ==
    /\ responses' = Append(responses, o)
    /\ inflight' = inflight \ {Len(responses) + 1}
    /\ mr' = MakeRequest(o)

Finish(r) ==
    /\ result' = r
    /\ pc' = IF r.exc = "none" THEN "returned" ELSE "raised"

Pending == calls[Len(calls)].endpoint

\* A call of one of the plain accessors.
CallAccessor ==
    /\ pc = "idle"
    /\ \E a \in Accessors, t \in Tickers, page \in Pages, page_size \in PageSizes,
          count_all \in BOOLEAN :
        /\ op' = a
        /\ Issue(Accessor(a, t, page, page_size, count_all))
    /\ UNCHANGED <<auth_token, jsonErrorIsRequestException, responses, mr,
                   ticker, partial, result>>

ReturnAccessor ==
    /\ pc = "waiting"
    /\ op \in Accessors
    /\ \E o \in Upstream(Pending) :
        /\ Answer(o)
        /\ Finish(MakeRequest(o))
    /\ UNCHANGED <<auth_token, jsonErrorIsRequestException, op, calls, gets,
                   ticker, partial>>

\* get_wallstreetbets_trending: get_wallstreetbets_live() with its default.
CallTrending ==
    /\ pc = "idle"
    /\ op' = "get_wallstreetbets_trending"
    /\ Issue(Accessor("get_wallstreetbets_live", "", 1, 100, TRUE))
    /\ UNCHANGED <<auth_token, jsonErrorIsRequestException, responses, mr,
                   ticker, partial, result>>

ReturnTrending ==
    /\ pc = "waiting"
    /\ op = "get_wallstreetbets_trending"
    /\ \E o \in Upstream(Pending) :
        /\ Answer(o)
        /\ Finish(Trending(MakeRequest(o)))
    /\ UNCHANGED <<auth_token, jsonErrorIsRequestException, op, calls, gets,
                   ticker, partial>>

\* test_connection: get_congress_trading_live(page_size=1).
CallTestConnection ==
    /\ pc = "idle"
    /\ op' = "test_connection"
    /\ Issue(Accessor("get_congress_trading_live", "", 1, 1, TRUE))
    /\ UNCHANGED <<auth_token, jsonErrorIsRequestException, responses, mr,
                   ticker, partial, result>>

ReturnTestConnection ==
    /\ pc = "waiting"
    /\ op = "test_connection"
    /\ \E o \in Upstream(Pending) :
        /\ Answer(o)
        /\ Finish(TestConnection(MakeRequest(o)))
    /\ UNCHANGED <<auth_token, jsonErrorIsRequestException, op, calls, gets,
                   ticker, partial>>

\* get_composite_data(t): the dict display evaluates its values in order.
CallComposite ==
    /\ pc = "idle"
    /\ \E t \in Tickers :
        /\ ticker' = t
        /\ Issue(Accessor(Sources[1].via, t, 1, 100, TRUE))
    /\ op' = "get_composite_data"
    /\ UNCHANGED <<auth_token, jsonErrorIsRequestException, responses, mr,
                   partial, result>>

\* One source has answered: its table is kept and the next source is
\* asked, or the mapping is returned; an exception of the fetch propagates.
StepComposite ==
    /\ pc = "waiting"
    /\ op = "get_composite_data"
    /\ \E o \in Upstream(Pending) :
        LET r == MakeRequest(o)
            got == Append(partial, r.value)
        IN  /\ responses' = Append(responses, o)
            /\ mr' = r
            /\ IF r.exc # "none"
               THEN /\ Finish(r)
                    /\ inflight' = inflight \ {Len(responses) + 1}
                    /\ UNCHANGED <<calls, gets, partial>>
               ELSE /\ partial' = got
                    /\ IF Len(got) < Len(Sources)
                       THEN /\ calls' = Append(calls,
                                   Accessor(Sources[Len(got) + 1].via, ticker, 1, 100, TRUE))
                            /\ gets' = Append(gets,
                                   Request(calls'[Len(calls')].endpoint,
                                           calls'[Len(calls')].params))
                            /\ inflight' = (inflight \ {Len(responses) + 1})
                                               \cup {Len(gets) + 1}
                            /\ UNCHANGED <<pc, result>>
                       ELSE /\ Finish(Returned(
                                   [k \in {Sources[i].key : i \in 1..Len(Sources)} |->
                                       got[CHOOSE i \in 1..Len(Sources) : Sources[i].key = k]]))
                            /\ inflight' = inflight \ {Len(responses) + 1}
                            /\ UNCHANGED <<calls, gets>>
    /\ UNCHANGED <<auth_token, jsonErrorIsRequestException, op, ticker>>

Next ==
    \/ CallAccessor
    \/ ReturnAccessor
    \/ CallTrending
    \/ ReturnTrending
    \/ CallTestConnection
    \/ ReturnTestConnection
    \/ CallComposite
    \/ StepComposite

Spec == Init /\ [][Next]_vars

(***************************************************************************)
(* Vocabulary of the properties.                                           *)
(***************************************************************************)
Done == pc \in {"returned", "raised"}

Last == responses[Len(responses)]

Is2xx(o) == ~o.net /\ 200 <= o.status /\ o.status <= 299

FalsyBody(b) ==
    \/ b.kind \in {"null", "falsy"}
    \/ b.kind = "array" /\ b.elems = <<>>
    \/ b.kind = "object" /\ b.keys = {}

\* What the caller of _make_request got, for the methods that hand its
\* return value on unchanged.
HandsOn == (op \in Accessors /\ Done) => result = mr

Min(a, b) == IF a < b THEN a ELSE b

(***************************************************************************)
(* C1.  When the upstream answers a GET with a 2xx status and a JSON array *)
(* of N >= 1 objects, _make_request returns a table of exactly N rows, one *)
(* per element in array order, whose column set is the union of the keys   *)
(* of the N objects.                                                       *)
(***************************************************************************)
C1_RowsAndColumns ==
    (Len(responses) > 0 /\ Is2xx(Last) /\ Last.body.kind = "array"
        /\ Len(Last.body.elems) >= 1) =>
        LET elems == Last.body.elems
            df == mr.value
        IN  /\ mr.exc = "none"
            /\ HandsOn
            /\ Len(df.rows) = Len(elems)
            /\ \A i \in 1..Len(elems) :
                  /\ df.rows[i].index = i - 1
                  /\ df.rows[i].keys = elems[i].keys
                  /\ df.rows[i].Mentions = elems[i].Mentions
            /\ \A k \in Keys :
                  k \in df.cols <=> \E i \in 1..Len(elems) : k \in elems[i].keys

C1_Witness ==
    /\ op \in Accessors /\ pc = "returned"
    /\ Is2xx(Last) /\ Last.body.kind = "array"
    /\ Len(Last.body.elems) = 2
    /\ Last.body.elems[1].keys = {"Ticker"}
    /\ Last.body.elems[2].keys = {"Mentions"}
    /\ Len(result.value.rows) = 2
    /\ result.value.cols = Keys

(***************************************************************************)
(* C2.  When the upstream answers a GET with a 2xx status and an empty or  *)
(* falsy JSON body ([], {}, null, or a falsy scalar), _make_request        *)
(* returns the table with no rows and no columns and does not raise.       *)
(***************************************************************************)
C2_FalsyBodyGivesEmpty ==
    (Len(responses) > 0 /\ Is2xx(Last) /\ FalsyBody(Last.body)) =>
        /\ mr = Returned(EmptyDF)
        /\ HandsOn

C2_Witness ==
    /\ op \in Accessors /\ pc = "returned"
    /\ Is2xx(Last) /\ Last.body.kind = "object" /\ Last.body.keys = {}
    /\ result.exc = "none"
    /\ Len(result.value.rows) = 0 /\ result.value.cols = {}

C4_NeverRaises ==
    jsonErrorIsRequestException =>
        /\ Len(responses) > 0 => mr.exc = "none"
        /\ op \in Accessors => pc # "raised"

(***************************************************************************)
(* C5.  get_composite_data always returns a mapping with exactly the six   *)
(* source keys, and the table of each key is the one its own source's      *)
(* answer gives, whatever the other sources answer.                        *)
(***************************************************************************)
C5_SixIndependentEntries ==
    (op = "get_composite_data" /\ Done) =>
        /\ pc = "returned"
        /\ DOMAIN result.value =
              {"congress", "wsb", "govcontracts", "lobbying", "offexchange",
               "political_beta"}
        /\ \A i \in 1..Len(Sources) :
              LET o == responses[i]
                  df == result.value[Sources[i].key]
              IN  IF Is2xx(o) /\ o.body.kind = "array"
                  THEN Len(df.rows) = Len(o.body.elems)
                  ELSE df = EmptyDF

(***************************************************************************)
(* C6.  get_wallstreetbets_trending returns, for a live sentiment dataset  *)
(* of R rows with a Mentions column, exactly min(10, R) rows: rows of the  *)
(* dataset, in descending order of Mentions, none of them smaller than a   *)
(* row left out.  An empty dataset is returned unchanged, nothing raised.  *)
(***************************************************************************)
C6_TopTenByMentions ==
    (op = "get_wallstreetbets_trending" /\ Done /\ mr.exc = "none") =>
        LET df == mr.value
            R == Len(df.rows)
        IN  /\ (R = 0 \/ df.cols = {}) => (pc = "returned" /\ result = mr)
            /\ (R > 0 /\ "Mentions" \in df.cols) =>
                  LET top == result.value.rows
                      chosen == {top[i].index : i \in 1..Len(top)}
                  IN  /\ pc = "returned"
                      /\ result.value.cols = df.cols
                      /\ Len(top) = Min(10, R)
                      /\ Cardinality(chosen) = Len(top)
                      /\ \A i \in 1..Len(top) : \E j \in 1..R : top[i] = df.rows[j]
                      /\ \A i \in 1..(Len(top) - 1) : top[i].Mentions >= top[i + 1].Mentions
                      /\ \A j \in 1..R :
                            df.rows[j].index \notin chosen =>
                                \A i \in 1..Len(top) : top[i].Mentions >= df.rows[j].Mentions

C6_Witness ==
    /\ op = "get_wallstreetbets_trending" /\ pc = "returned"
    /\ Len(mr.value.rows) = 11
    /\ mr.value.rows[1].Mentions = 1
    /\ mr.value.rows[11].Mentions = 2
    /\ Len(result.value.rows) = 10
    /\ result.value.rows[1].index = 10

C8_OneGetPerInvocation ==
    /\ Len(gets) = Len(calls)
    /\ \A i \in 1..Len(gets) :
          /\ gets[i].url = BaseUrl \o "/" \o calls[i].endpoint
          /\ gets[i].headers = [Accept |-> "application/json",
                                Authorization |-> "Bearer " \o auth_token]
          /\ gets[i].params = calls[i].params
    /\ Done => (inflight = {} /\ Len(responses) = Len(gets))
    /\ (op \in Accessors /\ pc # "idle") => Len(gets) = 1

C8_Witness ==
    /\ op = "get_lobbying_live" /\ pc = "returned"
    /\ Last.net
    /\ Len(gets) = 1
    /\ gets[1].params = {<<"page", "2">>, <<"page_size", "100">>}

(***************************************************************************)
(* C9.  get_composite_data(ticker) issues exactly six requests, one per    *)
(* source for the given ticker, strictly sequentially: never two in        *)
(* flight at once.                                                         *)
(***************************************************************************)
C9_SixSequentialRequests ==
    (op = "get_composite_data") =>
        /\ Cardinality(inflight) <= 1
        /\ Done =>
              /\ Len(gets) = 6
              /\ \A i \in 1..6 :
                    gets[i].url = BaseUrl \o "/" \o
                        Accessor(Sources[i].via, ticker, 1, 100, TRUE).endpoint

(***************************************************************************)
(* C10.  test_connection never raises: when the fetch under it raises an   *)
(* exception that _make_request does not catch, it returns false.          *)
(***************************************************************************)
C10_TestConnectionNeverRaises ==
    (op = "test_connection") =>
        /\ pc # "raised"
        /\ (Done /\ mr.exc # "none") => (pc = "returned" /\ result = Returned(FALSE))

C10_Witness ==
    /\ op = "test_connection" /\ pc = "returned"
    /\ mr.exc = "ValueError"
    /\ result = Returned(FALSE)

====
